---- MODULE Spec2Model ----
(***************************************************************************)
(* Model of the host edit form (internal/ui/component/hostedit) and of the *)
(* host model's command builder (internal/model/host) of goto.             *)
(*                                                                         *)
(* Text is a sequence of one-character strings.  The bubbletea runtime is  *)
(* the environment: it feeds key events, lets commands returned by Update  *)
(* travel back to Update in any order, and fires tea.Tick callbacks in any *)
(* order.                                                                  *)
(***************************************************************************)
EXTENDS Integers, Sequences, FiniteSets, TLC

VARIABLES
    inputs,        \* m.inputs: field index -> [Value, Err, Focused, Enabled, Placeholder]
    focusedInput,  \* m.focusedInput
    host,          \* m.host
    isNewHost,     \* m.isNewHost
    title,         \* m.title, the form banner
    debounceTag,   \* m.debounceTag
    copyEnabled,   \* keys.CopyInputValue.Enabled(), the global key map
    storage,       \* hostStorage: [hosts: set of saved records, nextID]
    envelopes,     \* debouncedMessage values returned as commands, not yet handled by Update
    timers,        \* tea.Tick callbacks armed by handleDebouncedMessage, not yet fired
    delivered,     \* ids of the requests whose wrapped message a callback returned, in order
    dropped,       \* ids of the requests whose callback returned nil
    nReq,          \* number of config-reload requests created so far
    lateReq,       \* TRUE once a request was created after the first request's timer fired
    nEdits,        \* number of editing key events handled so far
    lastMsg,       \* kind of the message handled by the last step
    cmd,           \* notifications in the command returned by the last handler, in order
    saveCalls,     \* number of hostStorage.Save calls made by the last handler
    saveErr,       \* TRUE iff hostStorage.Save returned an error in the last handler
    ready,         \* m.ready
    viewport,      \* m.viewport: [Width, Height]
    appState,      \* m.appState: [Width, Height], owned by the application
    resizeLog,     \* the last tea.WindowSizeMsg handled: [msg, run, from]
    cmdHost,       \* command builder: the host record
    cmdOut,        \* command builder: operation and resulting command
    detText,       \* address-mode detector: the address text
    detOut         \* address-mode detector: results of the two detectors

vars == <<inputs, focusedInput, host, isNewHost, title, debounceTag, copyEnabled,
          storage, envelopes, timers, delivered, dropped, nReq, lateReq, nEdits,
          lastMsg, cmd, saveCalls, saveErr, ready, viewport, appState, resizeLog,
          cmdHost, cmdOut, detText, detOut>>

formVars == <<inputs, focusedInput, host, isNewHost, title, debounceTag, copyEnabled,
              storage, envelopes, timers, delivered, dropped, nReq, lateReq, nEdits,
              lastMsg, cmd, saveCalls, saveErr, ready, viewport, appState, resizeLog>>

viewVars == <<ready, viewport, appState, resizeLog>>

builderVars == <<cmdHost, cmdOut>>

detectorVars == <<detText, detOut>>

----------------------------------------------------------------------------
(* Bounds *)

\* editing key events (character input, backspace, copy-value shortcut) handled by one form
MaxEdits == 2

\* length of the address texts given to the address-mode detector
MaxAddrLen == 3

----------------------------------------------------------------------------
(* Field indices and per-field configuration *)

inputTitle == 0

inputAddress == 1

inputDescription == 2

inputLogin == 3

inputNetworkPort == 4

inputIdentityFile == 5

Fields == inputTitle..inputIdentityFile

defaultTitle == "host details"

\* t.CharLimit of the address field; the other limits follow in CharLimit
AddressCharLimit == 128

\* t.CharLimit per field; 0 is the widget's default, no limit
CharLimit(i) ==
    CASE i = inputTitle -> 0
      [] i = inputAddress -> AddressCharLimit
      [] i = inputDescription -> 512
      [] i = inputLogin -> 128
      [] i = inputNetworkPort -> 5
      [] i = inputIdentityFile -> 512

Label(i) ==
    CASE i = inputTitle -> "Title"
      [] i = inputAddress -> "Host"
      [] i = inputDescription -> "Description"
      [] i = inputLogin -> "Login"
      [] i = inputNetworkPort -> "Network port"
      [] i = inputIdentityFile -> "Identity file"

\* m.appState.HostSSHConfig, owned by the application
AppHostSSHConfig == [User |-> "root", Port |-> "22", IdentityFile |-> "id_rsa"]

----------------------------------------------------------------------------
(* Text helpers: strings.TrimSpace, strings.Contains *)

\* the white space characters of the model's alphabet
WhiteSpace == {" ", "\t"}

RECURSIVE TrimLeft(_)
TrimLeft(s) ==
    IF s # <<>> /\ Head(s) \in WhiteSpace THEN TrimLeft(Tail(s)) ELSE s

RECURSIVE TrimRight(_)
TrimRight(s) ==
    IF s # <<>> /\ s[Len(s)] \in WhiteSpace THEN TrimRight(SubSeq(s, 1, Len(s) - 1)) ELSE s

TrimSpace(s) == TrimRight(TrimLeft(s))

Contains(s, c) == \E k \in 1..Len(s) : s[k] = c

\* utils.StringEmpty
StringEmpty(s) == Len(TrimSpace(s)) = 0

----------------------------------------------------------------------------
(* Validators *)

NoErr == "nil"

ErrRequired == "value is required"

ErrPort == "network port must be a number which is less than 65,535"

notEmptyValidator(s) == IF StringEmpty(s) THEN ErrRequired ELSE NoErr

Digits == <<"0", "1", "2", "3", "4", "5", "6", "7", "8", "9">>

DigitOf(c) == (CHOOSE k \in 1..10 : Digits[k] = c) - 1

IsDigit(c) == \E k \in 1..10 : Digits[k] = c

RECURSIVE NumValue(_, _)
NumValue(s, base) ==
    IF s = <<>> THEN 0
    ELSE NumValue(SubSeq(s, 1, Len(s) - 1), base) * base + DigitOf(s[Len(s)])

\* strconv.ParseUint(s, 0, 16) restricted to texts without base letters and
\* underscores: a leading "0" followed by more digits selects base 8.
\* The result is -1 for a syntax or range error.
ParseUint16(s) ==
    LET base == IF Len(s) > 1 /\ s[1] = "0" THEN 8 ELSE 10
        ok == /\ s # <<>>
              /\ \A k \in 1..Len(s) : IsDigit(s[k]) /\ DigitOf(s[k]) < base
    IN  IF ok /\ NumValue(s, base) <= 65535 THEN NumValue(s, base) ELSE -1

networkPortValidator(s) ==
    IF StringEmpty(s) THEN NoErr
    ELSE IF ParseUint16(s) < 1 THEN ErrPort ELSE NoErr

HasValidator(i) == i \in {inputTitle, inputAddress, inputNetworkPort}

\* m.inputs[i].Validate(s), for the fields that have a validator
Validate(i, s) ==
    IF i = inputNetworkPort THEN networkPortValidator(s) ELSE notEmptyValidator(s)

----------------------------------------------------------------------------
(* The text input widget (input.Input over the bubbles text input) *)

Truncate(s, limit) == IF limit > 0 /\ Len(s) > limit THEN SubSeq(s, 1, limit) ELSE s

\* Input.SetValue(s) on field i.  withValidator is FALSE while the caller has
\* set Validate to nil.  A value the validator refuses is not stored; a stored
\* value is cut to the field's CharLimit.
InputSetValue(ins, i, s, withValidator) ==
    IF withValidator /\ HasValidator(i) /\ Validate(i, s) # NoErr
    THEN [ins EXCEPT ![i].Err = Validate(i, s)]
    ELSE [ins EXCEPT ![i].Value = Truncate(s, CharLimit(i)), ![i].Err = NoErr]

\* Input.Update(msg) on field i for a key message, cursor at the end of the
\* text.  Character input appends the runes through SetValue; backspace removes
\* the last character and re-validates; any other key leaves the text alone.
\* A widget that is blurred or disabled ignores the key.
InputUpdate(ins, i, key) ==
    IF ~ins[i].Focused \/ ~ins[i].Enabled THEN ins
    ELSE CASE key.kind = "runes" ->
                InputSetValue(ins, i, Truncate(ins[i].Value \o key.runes, CharLimit(i)), TRUE)
           [] key.kind = "backspace" ->
                IF ins[i].Value = <<>> THEN [ins EXCEPT ![i].Err = NoErr]
                ELSE LET v == SubSeq(ins[i].Value, 1, Len(ins[i].Value) - 1)
                     IN  [ins EXCEPT ![i].Value = v,
                                     ![i].Err = IF HasValidator(i) THEN Validate(i, v) ELSE NoErr]
           [] OTHER -> ins

----------------------------------------------------------------------------
(* The storage collaborator *)

\* hostStorage.Save(h): a record without id gets the next id; the record
\* replaces the stored record of the same id.  On failure nothing is stored
\* and the record comes back as it was handed in.
StorageSaved(st, h) == IF h.ID = 0 THEN [h EXCEPT !.ID = st.nextID] ELSE h

StorageAfterSave(st, h) ==
    [hosts |-> {x \in st.hosts : x.ID # StorageSaved(st, h).ID} \cup {StorageSaved(st, h)},
     nextID |-> IF h.ID = 0 THEN st.nextID + 1 ELSE st.nextID]

----------------------------------------------------------------------------
(* Construction: New *)

ZeroHost ==
    [ID |-> 0, Title |-> <<>>, Address |-> <<>>, Description |-> <<>>,
     LoginName |-> <<>>, RemotePort |-> <<>>, PrivateKeyPath |-> <<>>]

\* records the storage may hold for the edited id when the form is opened
StoredHosts ==
    {[ZeroHost EXCEPT !.ID = 1, !.Title = <<"a">>, !.Address = a, !.RemotePort = p] :
        a \in {<<"a">>, <<"a", "@", "a">>}, p \in {<<>>, <<"0">>}}

\* getHostAttributeValueByIndex / the switch of New and save
HostAttribute(h, i) ==
    CASE i = inputTitle -> h.Title
      [] i = inputAddress -> h.Address
      [] i = inputDescription -> h.Description
      [] i = inputLogin -> h.LoginName
      [] i = inputNetworkPort -> h.RemotePort
      [] i = inputIdentityFile -> h.PrivateKeyPath

InitialPlaceholder(i) ==
    CASE i \in {inputTitle, inputAddress} -> <<"*required*", "">>
      [] i = inputDescription -> <<"n/a", "">>
      [] i = inputLogin -> <<"default: ", AppHostSSHConfig.User>>
      [] i = inputNetworkPort -> <<"default: ", AppHostSSHConfig.Port>>
      [] i = inputIdentityFile -> <<"default: ", AppHostSSHConfig.IdentityFile>>

\* the widgets New builds: SetValue runs before the validator is attached
NewInputs(h) ==
    [i \in Fields |->
        [Value |-> Truncate(HostAttribute(h, i), CharLimit(i)),
         Err |-> NoErr,
         Focused |-> (i = inputTitle),
         Enabled |-> TRUE,
         Placeholder |-> InitialPlaceholder(i)]]

\* keys.CopyInputValue.Enabled() after getKeyMap(focusedInput)
getKeyMap(f) == f = inputTitle \/ f = inputAddress

FormInit ==
    /\ \/ /\ isNewHost = TRUE
          /\ host = ZeroHost
          /\ storage = [hosts |-> {}, nextID |-> 1]
       \/ /\ isNewHost = FALSE
          /\ host \in StoredHosts
          /\ storage = [hosts |-> {host}, nextID |-> 2]
    /\ inputs = NewInputs(host)
    /\ focusedInput = inputTitle
    /\ title = defaultTitle
    /\ debounceTag = 0
    /\ copyEnabled = getKeyMap(inputTitle)
    /\ envelopes = {}
    /\ timers = {}
    /\ delivered = <<>>
    /\ dropped = {}
    /\ nReq = 0
    /\ lateReq = FALSE
    /\ nEdits = 0
    /\ lastMsg = "New"
    /\ cmd = <<>>
    /\ saveCalls = 0
    /\ saveErr = FALSE

\* the sizes of the terminal window
WindowSizes ==
    {[Width |-> 80, Height |-> 24], [Width |-> 100, Height |-> 30], [Width |-> 2, Height |-> 1]}

\* viewport.Model{} of a form that has no viewport yet
NoViewport == [Width |-> 0, Height |-> 0]

\* no tea.WindowSizeMsg handled yet.  run counts how often in a row the
\* message msg has been handled (2 stands for twice or more), from is the
\* controller state before the first handling of that run.
NoResize == [msg |-> NoViewport, run |-> 0, from |-> "none"]

\* the view part of New: no viewport, the application state holds the size
\* of the terminal, one of sizes
ViewInit(sizes) ==
    /\ ready = FALSE
    /\ viewport = NoViewport
    /\ appState \in sizes
    /\ resizeLog = NoResize

----------------------------------------------------------------------------
(* Notifications carried by the commands the handlers return *)

MsgClose == [type |-> "MsgClose", id |-> 0, text |-> <<>>]

HostListSelectItem(hostID) == [type |-> "HostListSelectItem", id |-> hostID, text |-> <<>>]

MsgRefreshRepo == [type |-> "MsgRefreshRepo", id |-> 0, text |-> <<>>]

\* debouncedMessage{wrappedMsg: RunProcessLoadSSHConfig{SSHConfigHostname: text}, debounceTag: tag}
DebouncedMessage(text, tag) == [type |-> "debouncedMessage", id |-> tag, text |-> text]

\* the cursor blink command returned by Input.Focus
Blink == [type |-> "Blink", id |-> 0, text |-> <<>>]

\* the tea.Tick armed by handleDebouncedMessage
Tick == [type |-> "Tick", id |-> 0, text |-> <<>>]

----------------------------------------------------------------------------
(* Helpers of the handlers *)

copyInputValueFromTo(ins, sourceInput, destinationInput) ==
    LET newValue == ins[sourceInput].Value
        set == InputSetValue(ins, destinationInput, newValue, FALSE)
    IN  [set EXCEPT ![destinationInput].Err = Validate(destinationInput, newValue)]

ShouldUpdateTitleAnyHost(f, new, ins) == f = inputTitle

\* the decision taken before the focused input is updated
ShouldUpdateTitle(f, new, ins) ==
    /\ f = inputTitle
    /\ new
    /\ ins[inputTitle].Value = ins[inputAddress].Value

\* the inputs after focusedInputProcessKeyEvent
ProcessedInputs(ins, f, new, key) ==
    LET updated == InputUpdate(ins, f, key)
    IN  IF ShouldUpdateTitle(f, new, ins)
        THEN copyInputValueFromTo(updated, inputTitle, inputAddress)
        ELSE updated

EmitsReloadOnAnyAddressChange(ins, f, new, key) ==
    ins[inputAddress].Value # ProcessedInputs(ins, f, new, key)[inputAddress].Value

\* whether focusedInputProcessKeyEvent returns a debouncedMessage
EmitsReload(ins, f, new, key) ==
    /\ f = inputAddress
    /\ ins[f].Value # ProcessedInputs(ins, f, new, key)[inputAddress].Value

NextFocusWrap(key, f) ==
    IF key = "up" THEN (f + 5) % 6 ELSE (f + 1) % 6

\* the focus index after inputFocusChange: moved by one, or left alone
NextFocus(key, f) ==
    IF key = "up" /\ f > 0 THEN f - 1
    ELSE IF key = "down" /\ f < 5 THEN f + 1
    ELSE f

RefocusedInputsWithoutBlur(ins, f) ==
    [i \in Fields |->
        [ins[i] EXCEPT !.Err = IF HasValidator(i) THEN Validate(i, ins[i].Value) ELSE @,
                       !.Focused = (@ \/ i = f)]]

RefocusedInputsValidatingFocused(ins, f) ==
    [i \in Fields |->
        [ins[i] EXCEPT !.Err = IF HasValidator(i) /\ i = f THEN Validate(i, ins[i].Value) ELSE @,
                       !.Focused = (i = f)]]

\* the validation and focus loop of inputFocusChange
RefocusedInputs(ins, f) ==
    [i \in Fields |->
        [ins[i] EXCEPT !.Err = IF HasValidator(i) THEN Validate(i, ins[i].Value) ELSE @,
                       !.Focused = (i = f)]]

LastInvalid(ins) ==
    IF \E i \in Fields : HasValidator(i) /\ Validate(i, ins[i].Value) # NoErr
    THEN CHOOSE i \in Fields :
            /\ HasValidator(i) /\ Validate(i, ins[i].Value) # NoErr
            /\ \A j \in Fields : j > i => ~(HasValidator(j) /\ Validate(j, ins[j].Value) # NoErr)
    ELSE 6

\* index of the first field whose validator refuses its value; 6 when none
FirstInvalid(ins) ==
    IF \E i \in Fields : HasValidator(i) /\ Validate(i, ins[i].Value) # NoErr
    THEN CHOOSE i \in Fields :
            /\ HasValidator(i) /\ Validate(i, ins[i].Value) # NoErr
            /\ \A j \in Fields : j < i => ~(HasValidator(j) /\ Validate(j, ins[j].Value) # NoErr)
    ELSE 6

\* the host record after save's loop has copied the fields with index below n
HostWithFields(h, ins, n) ==
    [ID |-> h.ID,
     Title |-> IF inputTitle < n THEN ins[inputTitle].Value ELSE h.Title,
     Address |-> IF inputAddress < n THEN ins[inputAddress].Value ELSE h.Address,
     Description |-> IF inputDescription < n THEN ins[inputDescription].Value ELSE h.Description,
     LoginName |-> IF inputLogin < n THEN ins[inputLogin].Value ELSE h.LoginName,
     RemotePort |-> IF inputNetworkPort < n THEN ins[inputNetworkPort].Value ELSE h.RemotePort,
     PrivateKeyPath |-> IF inputIdentityFile < n THEN ins[inputIdentityFile].Value
                        ELSE h.PrivateKeyPath]

SaveCommandRefreshFirst(hostID) == <<MsgClose, MsgRefreshRepo, HostListSelectItem(hostID)>>

\* the tea.Sequence save returns
SaveCommand(hostID) == <<MsgClose, HostListSelectItem(hostID), MsgRefreshRepo>>

TimerDeliversIfNotNewer(tag, current) == tag <= current - 1

\* the test of the tea.Tick callback
TimerDelivers(tag, current) == tag = current - 1

isCustomConnectStringUntrimmed(ins) ==
    Contains(ins[inputAddress].Value, " ") \/ Contains(ins[inputAddress].Value, "@")

isCustomConnectString(ins) ==
    LET rawValue == TrimSpace(ins[inputAddress].Value)
    IN  Contains(rawValue, " ") \/ Contains(rawValue, "@")

----------------------------------------------------------------------------
(* Update: one action per message the form handles *)

\* the character inputs the terminal delivers in one key message
LongText == [k \in 1..(AddressCharLimit + 1) |-> "a"]

Runes == {<<"a">>, <<"@">>, LongText}

debounceVars == <<debounceTag, envelopes, timers, delivered, dropped, nReq, lateReq>>

\* The parent screen removes the form when it receives MsgClose: a form that
\* has returned MsgClose handles no further message.
Closed == \E k \in 1..Len(cmd) : cmd[k] = MsgClose

\* what Update hands back to the runtime
Reply(kind, command, calls, failed) ==
    /\ ~Closed
    /\ lastMsg' = kind
    /\ cmd' = command
    /\ saveCalls' = calls
    /\ saveErr' = failed
    /\ UNCHANGED <<cmdHost, cmdOut, detText, detOut>>

\* a handler that leaves the ready flag and the viewport size alone
Returned(kind, command, calls, failed) ==
    /\ Reply(kind, command, calls, failed)
    /\ UNCHANGED viewVars

HostBoundToInputs(h, ins) == HostWithFields(h, ins, 6)

\* m.host after focusedInputProcessKeyEvent: the widgets hold the text, no
\* attribute of the record is assigned
HostAfterInput(h, ins) == h

\* handleKeyboardEvent, default branch: focusedInputProcessKeyEvent
KeyInput(kind, key) ==
    /\ title' = defaultTitle
    /\ inputs' = ProcessedInputs(inputs, focusedInput, isNewHost, key)
    /\ host' = HostAfterInput(host, inputs')
    /\ IF EmitsReload(inputs, focusedInput, isNewHost, key)
       THEN /\ nReq' = nReq + 1
            /\ envelopes' = envelopes \cup
                    {[id |-> nReq + 1, text |-> inputs'[inputAddress].Value, tag |-> debounceTag]}
            /\ lateReq' = (lateReq \/ 1 \in dropped \/ \E k \in 1..Len(delivered) : delivered[k].id = 1)
            /\ Returned(kind, <<DebouncedMessage(inputs'[inputAddress].Value, debounceTag)>>, 0, FALSE)
       ELSE /\ UNCHANGED <<nReq, envelopes, lateReq>>
            /\ Returned(kind, <<>>, 0, FALSE)
    /\ UNCHANGED <<focusedInput, isNewHost, debounceTag, copyEnabled, storage,
                   timers, delivered, dropped>>

KeyRunes ==
    /\ nEdits < MaxEdits
    /\ \E r \in Runes : KeyInput("KeyRunes", [kind |-> "runes", runes |-> r])
    /\ nEdits' = nEdits + 1

KeyBackspace ==
    /\ nEdits < MaxEdits
    /\ KeyInput("KeyBackspace", [kind |-> "backspace", runes |-> <<>>])
    /\ nEdits' = nEdits + 1

CopiedInputsIntoFocused(ins, f) ==
    IF f = inputTitle THEN copyInputValueFromTo(ins, inputAddress, f)
    ELSE IF f = inputAddress THEN copyInputValueFromTo(ins, inputTitle, f)
    ELSE ins

\* handleCopyInputValueShortcut
CopiedInputs(ins, f) ==
    IF f = inputTitle THEN copyInputValueFromTo(ins, f, inputAddress)
    ELSE IF f = inputAddress THEN copyInputValueFromTo(ins, f, inputTitle)
    ELSE ins

\* the copy-value key: it matches only while the shortcut is enabled in the
\* key map, otherwise the key falls through to the focused input
KeyCopy ==
    IF copyEnabled
    THEN /\ nEdits < MaxEdits
         /\ nEdits' = nEdits + 1
         /\ title' = defaultTitle
         /\ inputs' = CopiedInputs(inputs, focusedInput)
         /\ Returned("KeyCopy", <<>>, 0, FALSE)
         /\ UNCHANGED <<focusedInput, host, isNewHost, copyEnabled, storage>>
         /\ UNCHANGED debounceVars
    ELSE /\ KeyInput("KeyCopy", [kind |-> "other", runes |-> <<>>])
         /\ UNCHANGED nEdits

\* inputFocusChange
KeyNavigate(kind, key) ==
    /\ title' = defaultTitle
    /\ focusedInput' = NextFocus(key, focusedInput)
    /\ IF focusedInput' = focusedInput
       THEN /\ UNCHANGED <<inputs, copyEnabled>>
            /\ Returned(kind, <<>>, 0, FALSE)
       ELSE /\ inputs' = RefocusedInputs(inputs, focusedInput')
            /\ copyEnabled' = getKeyMap(focusedInput')
            /\ Returned(kind, <<Blink>>, 0, FALSE)
    /\ UNCHANGED <<host, isNewHost, storage, nEdits>>
    /\ UNCHANGED debounceVars

KeyUp == KeyNavigate("KeyUp", "up")

KeyDown == KeyNavigate("KeyDown", "down")

\* save
KeySave ==
    LET bad == FirstInvalid(inputs)
        h == HostWithFields(host, inputs, bad)
    IN  /\ host' = h
        /\ IF bad \in Fields
           THEN /\ inputs' = [inputs EXCEPT ![bad].Err = Validate(bad, inputs[bad].Value)]
                /\ title' = Label(bad) \o " is not valid"
                /\ Returned("KeySave", <<>>, 0, FALSE)
                /\ UNCHANGED storage
           ELSE /\ UNCHANGED inputs
                /\ title' = defaultTitle
                /\ \/ /\ storage' = StorageAfterSave(storage, h)
                      /\ Returned("KeySave", SaveCommand(StorageSaved(storage, h).ID), 1, FALSE)
                   \/ /\ UNCHANGED storage
                      /\ Returned("KeySave", SaveCommand(h.ID), 1, TRUE)
        /\ UNCHANGED <<focusedInput, isNewHost, copyEnabled, nEdits>>
        /\ UNCHANGED debounceVars

DiscardCommandWithRefresh == <<MsgClose, MsgRefreshRepo>>

\* message.TeaCmd(MsgClose{}), the command of the Discard branch
DiscardCommand == <<MsgClose>>

KeyDiscard ==
    /\ title' = defaultTitle
    /\ Returned("KeyDiscard", DiscardCommand, 0, FALSE)
    /\ UNCHANGED <<inputs, focusedInput, host, isNewHost, copyEnabled, storage, nEdits>>
    /\ UNCHANGED debounceVars

\* handleDebouncedMessage
HandleDebounced ==
    \E e \in envelopes :
        /\ envelopes' = envelopes \ {e}
        /\ debounceTag' = debounceTag + 1
        /\ timers' = timers \cup {[id |-> e.id, text |-> e.text, tag |-> e.tag,
                                   seq |-> debounceTag + 1]}
        /\ Returned("debouncedMessage", <<Tick>>, 0, FALSE)
        /\ UNCHANGED <<inputs, focusedInput, host, isNewHost, title, copyEnabled, storage,
                       delivered, dropped, nReq, lateReq, nEdits>>

\* The tea.Tick callback of one envelope runs after debounceTime.  It runs on a
\* goroutine of the runtime and reads m.debounceTag while Update may be
\* incrementing it: the read yields the counter before or after such an
\* increment, which are the two orders of this step and HandleDebounced.
TimerFires ==
    \E t \in timers :
        /\ timers' = timers \ {t}
        /\ IF TimerDelivers(t.tag, debounceTag)
           THEN /\ delivered' = Append(delivered, [id |-> t.id, text |-> t.text, tag |-> t.tag,
                                                   seq |-> t.seq, at |-> debounceTag])
                /\ UNCHANGED dropped
           ELSE /\ dropped' = dropped \cup {t.id}
                /\ UNCHANGED delivered
        /\ Returned("TickCallback", <<>>, 0, FALSE)
        /\ UNCHANGED <<inputs, focusedInput, host, isNewHost, title, debounceTag, copyEnabled,
                       storage, envelopes, nReq, lateReq, nEdits>>

\* updateInputPlaceholders
PlaceholderPrefix(ins) == IF isCustomConnectString(ins) THEN "readonly: " ELSE "default: "

\* message.HostSSHConfigLoaded: updateInputPlaceholders, updateInputTitles
ConfigLoaded ==
    /\ inputs' =
         [i \in Fields |->
            IF i \in {inputLogin, inputNetworkPort, inputIdentityFile}
            THEN [inputs[i] EXCEPT
                    !.Placeholder = <<PlaceholderPrefix(inputs), InitialPlaceholder(i)[2]>>,
                    !.Enabled = IF isCustomConnectString(inputs)
                                THEN ~isCustomConnectString(inputs) ELSE @]
            ELSE inputs[i]]
    /\ Returned("HostSSHConfigLoaded", <<>>, 0, FALSE)
    /\ UNCHANGED <<focusedInput, host, isNewHost, title, copyEnabled, storage, nEdits>>
    /\ UNCHANGED debounceVars

\* lipgloss.Height(m.headerView()): the banner is one line for every title
headerHeight(t) == 1

\* lipgloss.Height(m.helpView()): the short help is one line for every key map
helpMenuHeight(enabled) == 1

updateViewPortRelative(rdy, vp, app, bannerHeight, helpHeight, msg) ==
    IF ~rdy
    THEN [ready |-> TRUE,
          viewport |-> [Width |-> app.Width, Height |-> app.Height - bannerHeight - helpHeight]]
    ELSE IF msg.isResize
         THEN [ready |-> rdy,
               viewport |-> [Width |-> msg.Width,
                             Height |-> vp.Height - bannerHeight - helpHeight]]
         ELSE [ready |-> rdy, viewport |-> vp]

\* updateViewPort(msg): the ready flag and the viewport size after the call
updateViewPort(rdy, vp, app, bannerHeight, helpHeight, msg) ==
    IF ~rdy
    THEN [ready |-> TRUE,
          viewport |-> [Width |-> app.Width, Height |-> app.Height - bannerHeight - helpHeight]]
    ELSE IF msg.isResize
         THEN [ready |-> rdy,
               viewport |-> [Width |-> msg.Width,
                             Height |-> msg.Height - bannerHeight - helpHeight]]
         ELSE [ready |-> rdy, viewport |-> vp]

\* m.appState when the form is handed a tea.WindowSizeMsg: the application has
\* recorded the size of the window in its state before it hands the message on
AppStateOnResize(app, size) == size

\* tea.WindowSizeMsg: updateViewPort(msg)
Resize ==
    \E size \in WindowSizes :
        LET msg == [isResize |-> TRUE, Width |-> size.Width, Height |-> size.Height]
            app == AppStateOnResize(appState, size)
            after == updateViewPort(ready, viewport, app, headerHeight(title),
                                    helpMenuHeight(copyEnabled), msg)
        IN  /\ appState' = app
            /\ ready' = after.ready
            /\ viewport' = after.viewport
            /\ resizeLog' =
                  IF lastMsg = "WindowSizeMsg" /\ resizeLog.msg = size
                  THEN [resizeLog EXCEPT !.run = 2]
                  ELSE [msg |-> size, run |-> 1,
                        from |-> IF ready THEN "ready" ELSE "initializing"]
            /\ Reply("WindowSizeMsg", <<>>, 0, FALSE)
            /\ UNCHANGED <<inputs, focusedInput, host, isNewHost, title, copyEnabled, storage,
                           nEdits>>
            /\ UNCHANGED debounceVars

\* View: a form without viewport creates it with updateViewPort(nil)
View ==
    LET msg == [isResize |-> FALSE, Width |-> 0, Height |-> 0]
        after == IF ~ready
                 THEN updateViewPort(ready, viewport, appState, headerHeight(title),
                                     helpMenuHeight(copyEnabled), msg)
                 ELSE [ready |-> ready, viewport |-> viewport]
    IN  /\ ready' = after.ready
        /\ viewport' = after.viewport
        /\ Reply("View", <<>>, 0, FALSE)
        /\ UNCHANGED <<inputs, focusedInput, host, isNewHost, title, copyEnabled, storage,
                       nEdits, appState, resizeLog>>
        /\ UNCHANGED debounceVars

FormNext ==
    \/ KeyRunes
    \/ KeyBackspace
    \/ KeyCopy
    \/ KeyUp
    \/ KeyDown
    \/ KeySave
    \/ KeyDiscard
    \/ HandleDebounced
    \/ TimerFires
    \/ ConfigLoaded
    \/ Resize
    \/ View

----------------------------------------------------------------------------------------------------------------------------------------
(* The host model: address-mode detector and command builder *)

\* Host.IsUserDefinedSSHCommand
IsUserDefinedSSHCommand(h) ==
    LET rawValue == TrimSpace(h.Address)
    IN  Contains(rawValue, " ") \/ Contains(rawValue, "@")

RECURSIVE Texts(_, _)
\* the texts of at most n characters over the alphabet
Texts(alphabet, n) ==
    IF n = 0 THEN {<<>>}
    ELSE Texts(alphabet, n - 1) \cup
         {Append(t, c) : t \in {u \in Texts(alphabet, n - 1) : Len(u) = n - 1}, c \in alphabet}

DetectorAlphabet == {"a", " ", "@", "\t"}

DetectorInit ==
    /\ detText \in Texts(DetectorAlphabet, MaxAddrLen)
    /\ detOut = [done |-> FALSE, form |-> FALSE, host |-> FALSE]

\* both detectors applied to the same address text
Detect ==
    /\ ~detOut.done
    /\ detOut' = [done |-> TRUE,
                  form |-> isCustomConnectString(NewInputs([ZeroHost EXCEPT !.Address = detText])),
                  host |-> IsUserDefinedSSHCommand([ZeroHost EXCEPT !.Address = detText])]
    /\ UNCHANGED detText
    /\ UNCHANGED formVars
    /\ UNCHANGED builderVars

DetectorIdle == detText = <<>> /\ detOut = [done |-> FALSE, form |-> FALSE, host |-> FALSE]

\* literal texts of the commands
Lit_ssh == <<"s", "s", "h">>

Lit_sshpass == <<"s", "s", "h", "p", "a", "s", "s">>

Lit_ssh_copy_id == <<"s", "s", "h", "-", "c", "o", "p", "y", "-", "i", "d">>

Lit_G == <<"-", "G">>

Flag(c) == <<" ", "-", c, " ">>

\* the connection target: login@address, or the address alone
Target(login, address) == IF login = <<>> THEN address ELSE login \o <<"@">> \o address

RECURSIVE OptionsText(_, _)
\* the options rendered by the ssh package in the order given; an option
\* with an empty value is omitted, the login name is joined to the address
OptionsText(options, login) ==
    IF options = <<>> THEN <<>>
    ELSE LET kind == options[1][1]
             value == options[1][2]
             rest == Tail(options)
         IN  CASE kind = "LoginName" -> OptionsText(rest, value)
               [] value = <<>> -> OptionsText(rest, login)
               [] kind = "PrivateKey" -> Flag("i") \o value \o OptionsText(rest, login)
               [] kind = "RemotePort" -> Flag("p") \o value \o OptionsText(rest, login)
               [] kind = "Address" -> <<" ">> \o Target(login, value) \o OptionsText(rest, login)
               [] kind = "ReadConfig" ->
                    <<" ">> \o Lit_G \o <<" ">> \o Target(login, value) \o OptionsText(rest, login)

\* ssh.ConnectCommand(options...)
ConnectCommand(options) == Lit_ssh \o OptionsText(options, <<>>)

\* ssh.LoadConfigCommand(options...)
LoadConfigCommand(options) == Lit_ssh \o OptionsText(options, <<>>)

\* ssh.CopyIDCommand(options...)
CopyIDCommand(options) == Lit_ssh_copy_id \o OptionsText(options, <<>>)

\* fmt.Sprintf("sshpass -p '%s' %s", password, command)
SshpassWrap(password, command) ==
    Lit_sshpass \o Flag("p") \o <<"'">> \o password \o <<"'", " ">> \o command

\* Host.CmdSSHConnect
CmdSSHConnect(h) ==
    IF IsUserDefinedSSHCommand(h)
    THEN ConnectCommand(<< <<"Address", h.Address>> >>)
    ELSE LET options == << <<"PrivateKey", h.IdentityFilePath>>,
                           <<"RemotePort", h.RemotePort>>,
                           <<"LoginName", h.LoginName>>,
                           <<"Address", h.Address>> >>
         IN  IF h.Password # <<>>
             THEN SshpassWrap(h.Password, ConnectCommand(options))
             ELSE ConnectCommand(options)

\* Host.CmdSSHConfig
CmdSSHConfig(h) ==
    IF IsUserDefinedSSHCommand(h)
    THEN LoadConfigCommand(<< <<"ReadConfig", h.Address>> >>)
    ELSE LoadConfigCommand(<< <<"PrivateKey", h.IdentityFilePath>>,
                              <<"RemotePort", h.RemotePort>>,
                              <<"LoginName", h.LoginName>>,
                              <<"ReadConfig", h.Address>> >>)

CmdSSHCopyIDFromRecord(h) ==
    CopyIDCommand(<< <<"LoginName", h.LoginName>>,
                     <<"RemotePort", h.RemotePort>>,
                     <<"PrivateKey", h.IdentityFilePath>>,
                     <<"Address", h.Address>> >>)

\* Host.CmdSSHCopyID, for a record whose SSHClientConfig points to a snapshot
CmdSSHCopyID(h) ==
    LET hostname == h.SSHClientConfig.Hostname
        identityFile == h.SSHClientConfig.IdentityFile
        port == h.SSHClientConfig.Port
        user == h.SSHClientConfig.User
    IN  CopyIDCommand(<< <<"LoginName", user>>,
                         <<"RemotePort", port>>,
                         <<"PrivateKey", identityFile>>,
                         <<"Address", hostname>> >>)

\* Host.SSHClientConfig of a record nothing has assigned a snapshot to: the
\* nil pointer NewHost and Clone leave in the field
NilConfig ==
    [isNil |-> TRUE, Hostname |-> <<>>, Port |-> <<>>, User |-> <<>>, IdentityFile |-> <<>>]

\* the snapshots the SSH-config loader may have stored in a record
LoadedConfigs ==
    [isNil : {FALSE},
     Hostname : {<<"h">>, <<"g">>},
     Port : {<<>>, <<"2", "2">>},
     User : {<<>>, <<"r">>},
     IdentityFile : {<<>>, <<"k">>}]

\* the host records handed to the command builder
BuilderHosts ==
    [Address : {<<"h">>, <<"u", "@", "h">>, <<"h", " ", "-", "v">>},
     RemotePort : {<<>>, <<"2", "2">>},
     LoginName : {<<>>, <<"u">>},
     IdentityFilePath : {<<>>, <<"k">>},
     Password : {<<>>, <<"x">>, <<"x", "'", "y">>},
     SSHClientConfig : {NilConfig} \cup LoadedConfigs]

NoCommand == [op |-> "none", cmd |-> <<>>, panic |-> FALSE]

BuilderInit ==
    /\ cmdHost \in BuilderHosts
    /\ cmdOut = NoCommand

BuilderIdle ==
    /\ cmdHost = [Address |-> <<>>, RemotePort |-> <<>>, LoginName |-> <<>>,
                  IdentityFilePath |-> <<>>, Password |-> <<>>, SSHClientConfig |-> NilConfig]
    /\ cmdOut = NoCommand

Connect ==
    /\ cmdOut' = [op |-> "CmdSSHConnect", cmd |-> CmdSSHConnect(cmdHost), panic |-> FALSE]
    /\ UNCHANGED cmdHost
    /\ UNCHANGED formVars
    /\ UNCHANGED detectorVars

LoadConfig ==
    /\ cmdOut' = [op |-> "CmdSSHConfig", cmd |-> CmdSSHConfig(cmdHost), panic |-> FALSE]
    /\ UNCHANGED cmdHost
    /\ UNCHANGED formVars
    /\ UNCHANGED detectorVars

\* Host.CmdSSHCopyID: reading a field through the nil SSHClientConfig pointer
\* is a run-time panic, no command is returned
CopyID ==
    /\ cmdOut' = IF cmdHost.SSHClientConfig.isNil
                 THEN [op |-> "CmdSSHCopyID", cmd |-> <<>>, panic |-> TRUE]
                 ELSE [op |-> "CmdSSHCopyID", cmd |-> CmdSSHCopyID(cmdHost), panic |-> FALSE]
    /\ UNCHANGED cmdHost
    /\ UNCHANGED formVars
    /\ UNCHANGED detectorVars

\* the terminal size the application holds when the form is opened
OpeningSizes == {[Width |-> 80, Height |-> 24]}

\* the form a screen has just opened for a new record, handling nothing
FormIdle == FormInit /\ isNewHost /\ ViewInit(OpeningSizes)

----------------------------------------------------------------------------
(* Specifications *)

Init == FormInit /\ ViewInit(OpeningSizes) /\ BuilderIdle /\ DetectorIdle

\* every message the form handles
Next == FormNext

Spec == Init /\ [][Next]_vars

\* the form under key messages alone
NextKeys ==
    \/ KeyRunes
    \/ KeyBackspace
    \/ KeyCopy
    \/ KeyUp
    \/ KeyDown
    \/ KeySave
    \/ KeyDiscard

SpecKeys == Init /\ [][NextKeys]_vars

\* the form under text editing, navigation and the debounce traffic
NextDebounce ==
    \/ KeyRunes
    \/ KeyBackspace
    \/ KeyUp
    \/ KeyDown
    \/ HandleDebounced
    \/ TimerFires

SpecDebounce == Init /\ [][NextDebounce]_vars

\* the form under text editing, navigation and config-loaded notifications
NextConfig ==
    \/ KeyRunes
    \/ KeyBackspace
    \/ KeyCopy
    \/ KeyUp
    \/ KeyDown
    \/ ConfigLoaded

SpecConfig == Init /\ [][NextConfig]_vars

\* the form under window size messages, rendering, navigation and Save
InitResize == FormInit /\ ViewInit(WindowSizes) /\ BuilderIdle /\ DetectorIdle

NextResize ==
    \/ Resize
    \/ View
    \/ KeyUp
    \/ KeyDown
    \/ KeySave

SpecResize == InitResize /\ [][NextResize]_vars

\* One user's session with the form, every message included.  The form is
\* opened for a new record or for the stored record with a user-defined
\* address and the port "0".  A debouncedMessage comes back to Update before
\* the next message; the user types into the address while no reload request
\* is in flight; HostSSHConfigLoaded answers a delivered request; the window
\* is sized before the first edit.
InitSession ==
    /\ Init
    /\ isNewHost \/ (host.Address = <<"a", "@", "a">> /\ host.RemotePort = <<"0">>)

Quiet == focusedInput = inputAddress => envelopes = {} /\ timers = {}

Unsized == ~ready /\ resizeLog = NoResize

IsAnswer == lastMsg = "TickCallback" /\ Len(delivered) > 0

NoEnvelope == envelopes = {}

NextSession ==
    \/ NoEnvelope /\ Quiet /\ Unsized /\ KeyRunes
    \/ NoEnvelope /\ Quiet /\ Unsized /\ KeyBackspace
    \/ NoEnvelope /\ Unsized /\ KeyCopy
    \/ NoEnvelope /\ KeyUp
    \/ NoEnvelope /\ KeyDown
    \/ NoEnvelope /\ KeySave
    \/ NoEnvelope /\ KeyDiscard
    \/ NoEnvelope /\ TimerFires
    \/ NoEnvelope /\ IsAnswer /\ ConfigLoaded
    \/ NoEnvelope /\ nEdits = 0 /\ Resize
    \/ NoEnvelope /\ nEdits = 0 /\ View
    \/ HandleDebounced

SpecSession == InitSession /\ [][NextSession]_vars

\* the address-mode detectors over bounded address texts
InitDetector == FormIdle /\ BuilderIdle /\ DetectorInit

SpecDetector == InitDetector /\ [][Detect]_vars

\* the command builder over bounded host records
InitBuilder == FormIdle /\ BuilderInit /\ DetectorIdle

NextBuilder == Connect \/ LoadConfig \/ CopyID

SpecBuilder == InitBuilder /\ [][NextBuilder]_vars

----------------------------------------------------------------------------
(* Properties *)

Quiescent == envelopes = {} /\ timers = {}

\* C1: for a burst of N >= 1 config-reload requests, all created before the
\* first request's timer fires, once every envelope has been handled and
\* every timer has fired, the last request's message has been delivered
\* exactly once and every earlier request has been dropped.
C1_BurstDeliversExactlyLast ==
    (nReq >= 1 /\ ~lateReq /\ Quiescent) =>
        /\ Len(delivered) = 1
        /\ delivered[1].id = nReq
        /\ dropped = 1..(nReq - 1)

\* C2: a timer callback delivers its message only if the envelope's tag is
\* the debounce counter minus one at the moment it fires, and never when a
\* later envelope has been handled by handleDebouncedMessage before it fires
\* (seq is the counter right after the envelope was handled, at the counter
\* when the callback ran).
C2_OnlyLatestHandledDelivered ==
    \A k \in 1..Len(delivered) :
        /\ delivered[k].tag = delivered[k].at - 1
        /\ delivered[k].seq = delivered[k].at

\* two envelopes handled, the first one's timer fired last and was dropped,
\* the second one's message was delivered
C2_Witness ==
    /\ Len(delivered) = 1
    /\ delivered[1].seq = 2
    /\ \E d \in dropped : d # delivered[1].id
    /\ timers = {}

SomeInvalid(ins) == \E i \in Fields : HasValidator(i) /\ Validate(i, ins[i].Value) # NoErr

\* C3: a Save in which some field fails its validator leaves every attribute
\* of the in-memory host record as it was before the Save.
C3_FailedSaveKeepsHost ==
    [][(lastMsg' = "KeySave" /\ SomeInvalid(inputs)) => host' = host]_vars

\* C4: a Save in which some field fails its validator never calls the
\* storage's save, leaves the storage unchanged, returns no notification,
\* sets the field-level error on the first failing field in index order (the
\* title when it is empty) and sets the banner to that field's label followed
\* by " is not valid".
C4_InvalidSaveIsLocal ==
    [][\A i \in Fields :
          ( /\ lastMsg' = "KeySave"
            /\ HasValidator(i) /\ Validate(i, inputs[i].Value) # NoErr
            /\ \A j \in 0..(i - 1) : ~(HasValidator(j) /\ Validate(j, inputs[j].Value) # NoErr) )
          => /\ saveCalls' = 0
             /\ storage' = storage
             /\ cmd' = <<>>
             /\ inputs'[i].Err = Validate(i, inputs[i].Value)
             /\ inputs'[i].Err # NoErr
             /\ title' = Label(i) \o " is not valid"
             /\ (StringEmpty(inputs[inputTitle].Value) =>
                    i = inputTitle /\ title' = "Title is not valid")]_vars

\* a Save of a form with an empty title has just been refused
C4_Witness ==
    /\ lastMsg = "KeySave"
    /\ inputs[inputTitle].Value = <<>>
    /\ inputs[inputTitle].Err = ErrRequired
    /\ title = "Title is not valid"
    /\ saveCalls = 0

\* C5: a Save in which every field passes validation hands the record to the
\* storage exactly once and returns exactly close-form, select-record with
\* the id of the record the storage returned, refresh-list, in this order.
C5_ValidSaveSequence ==
    (lastMsg = "KeySave" /\ ~SomeInvalid(inputs)) =>
        /\ saveCalls = 1
        /\ Len(cmd) = 3
        /\ cmd[1] = MsgClose
        /\ cmd[2].type = "HostListSelectItem"
        /\ cmd[3] = MsgRefreshRepo
        /\ (~saveErr => [host EXCEPT !.ID = cmd[2].id] \in storage.hosts)
        /\ (host.ID # 0 => cmd[2].id = host.ID)

\* a new record has just been saved and the storage gave it the id 1
C5_Witness ==
    /\ lastMsg = "KeySave"
    /\ isNewHost
    /\ saveCalls = 1
    /\ ~saveErr
    /\ cmd = <<MsgClose, HostListSelectItem(1), MsgRefreshRepo>>

\* C6: when every field validates and the storage's save returns an error,
\* Save shows the error in the banner and returns none of close-form,
\* select-record, refresh-list.
C6_StorageErrorSurfaced ==
    (lastMsg = "KeySave" /\ saveErr) =>
        /\ title # defaultTitle
        /\ cmd = <<>>

\* C7: the focus index is always in 0..5; Up and Down move it by exactly one
\* when the target is in range and leave it alone on the first resp. last
\* field; no other key moves it.
C7_FocusClamped ==
    [][/\ focusedInput \in Fields
       /\ focusedInput' \in Fields
       /\ lastMsg' = "KeyUp" =>
            focusedInput' = IF focusedInput = 0 THEN 0 ELSE focusedInput - 1
       /\ lastMsg' = "KeyDown" =>
            focusedInput' = IF focusedInput = 5 THEN 5 ELSE focusedInput + 1
       /\ lastMsg' \notin {"KeyUp", "KeyDown"} => focusedInput' = focusedInput]_vars

\* Down has just been pressed on the last field and the focus stayed there
C7_Witness ==
    /\ lastMsg = "KeyDown"
    /\ focusedInput = inputIdentityFile
    /\ cmd = <<>>

UserDefinedText(s) ==
    \E k \in 1..Len(s) :
        \/ s[k] = "@"
        \/ /\ s[k] = " "
           /\ \E i \in 1..(k - 1) : s[i] \notin WhiteSpace
           /\ \E j \in (k + 1)..Len(s) : s[j] \notin WhiteSpace

\* C9: the form's detector answers "user-defined" exactly for the texts that,
\* with surrounding white space trimmed, contain a space or an "@", and the
\* host record's detector gives the same answer for the same text.
C9_DetectorsAgreeWithClaim ==
    detOut.done =>
        /\ detOut.form = UserDefinedText(detText)
        /\ detOut.host = detOut.form

\* a text with leading white space and no "@" was classified as structured
C9_Witness ==
    /\ detOut.done
    /\ detText = <<" ", "a">>
    /\ ~detOut.form

IsPrefix(p, s) == Len(p) <= Len(s) /\ SubSeq(s, 1, Len(p)) = p

\* C10: the Connect command of a record with a password starts with
\* sshpass -p '<password>' followed by the ssh invocation, in both address
\* modes; without a password it starts with the ssh invocation.
C10_PasswordAlwaysWrapped ==
    cmdOut.op = "CmdSSHConnect" =>
        IF cmdHost.Password # <<>>
        THEN IsPrefix(Lit_sshpass \o <<" ", "-", "p", " ", "'">> \o cmdHost.Password
                        \o <<"'", " ">> \o Lit_ssh, cmdOut.cmd)
        ELSE IsPrefix(Lit_ssh \o <<" ">>, cmdOut.cmd)

\* C11: Connect, Load-Default-Config and Copy-Identity each return a command
\* text for every host record, a record with empty optional fields and
\* without a resolved SSH-config snapshot included: no operation fails.
C11_BuilderNeverFails ==
    cmdOut.op # "none" =>
        /\ ~cmdOut.panic
        /\ cmdOut.cmd # <<>>

\* C12: the Copy-Identity command of a record is the Copy-Identity command of
\* every record holding an equal snapshot, whatever its address, login name,
\* remote port, identity file path and password; the Load-Default-Config
\* command of a record is that of every record differing only in password
\* and never starts with the password wrapper.
C12_CopyIDDependsOnSnapshotOnly ==
    /\ (cmdOut.op = "CmdSSHCopyID" /\ ~cmdOut.panic) =>
            \A h \in BuilderHosts :
                h.SSHClientConfig = cmdHost.SSHClientConfig => CmdSSHCopyID(h) = cmdOut.cmd
    /\ cmdOut.op = "CmdSSHConfig" =>
            /\ \A h \in BuilderHosts :
                    [h EXCEPT !.Password = cmdHost.Password] = cmdHost =>
                        CmdSSHConfig(h) = cmdOut.cmd
            /\ ~IsPrefix(Lit_sshpass, cmdOut.cmd)

\* Copy-Identity was built for a record with a user-defined address, a
\* password and overrides that all differ from its snapshot
C12_Witness ==
    /\ cmdOut.op = "CmdSSHCopyID"
    /\ ~cmdOut.panic
    /\ cmdHost.Address = <<"u", "@", "h">>
    /\ cmdHost.Password = <<"x">>
    /\ cmdHost.LoginName = <<"u">>
    /\ cmdHost.SSHClientConfig.Hostname = <<"g">>
    /\ cmdHost.SSHClientConfig.User = <<"r">>
    /\ cmdOut.cmd = Lit_ssh_copy_id \o <<" ", "r", "@", "g">>

\* C13 as claimed: the copy-value shortcut with the focus on the title copies
\* the address into the title, with the focus on the address copies the
\* title into the address; the field that is not focused keeps its value.
C13_CopiesOtherIntoFocused ==
    [][(lastMsg' = "KeyCopy" /\ copyEnabled) =>
          /\ focusedInput = inputTitle =>
                /\ inputs'[inputTitle].Value = inputs[inputAddress].Value
                /\ inputs'[inputAddress].Value = inputs[inputAddress].Value
          /\ focusedInput = inputAddress =>
                /\ inputs'[inputAddress].Value = inputs[inputTitle].Value
                /\ inputs'[inputTitle].Value = inputs[inputTitle].Value]_vars

\* C13 as amended: the shortcut copies the focused field into the other one:
\* with the focus on the title the address becomes the title (cut to the
\* address field's limit of 128 characters), with the focus on the address
\* the title becomes the address; the focused field keeps its value and the
\* shortcut is enabled on these two fields only.
C13_CopiesFocusedIntoOther ==
    [][(lastMsg' = "KeyCopy" /\ copyEnabled) =>
          /\ focusedInput \in {inputTitle, inputAddress}
          /\ focusedInput = inputTitle =>
                /\ inputs'[inputAddress].Value =
                      LET t == inputs[inputTitle].Value
                      IN  IF Len(t) <= 128 THEN t ELSE SubSeq(t, 1, 128)
                /\ inputs'[inputTitle].Value = inputs[inputTitle].Value
          /\ focusedInput = inputAddress =>
                /\ inputs'[inputTitle].Value = inputs[inputAddress].Value
                /\ inputs'[inputAddress].Value = inputs[inputAddress].Value
          /\ \A i \in Fields \ {inputTitle, inputAddress} :
                inputs'[i].Value = inputs[i].Value]_vars

\* the shortcut was used on the address of a stored record whose title was
\* "a": the title now holds the address
C13_Witness ==
    /\ lastMsg = "KeyCopy"
    /\ focusedInput = inputAddress
    /\ host.Title = <<"a">>
    /\ inputs[inputAddress].Value = <<"a", "@", "a">>
    /\ inputs[inputTitle].Value = <<"a", "@", "a">>

\* C14: every envelope's tag is the debounce counter right before the
\* increment made for that envelope, so no two envelopes carry the same tag,
\* also when two address edits are handled before the first edit's envelope
\* is (seq is the counter right after the envelope's increment).
C14_TagsUnique ==
    LET issued == {[id |-> e.id, tag |-> e.tag] : e \in envelopes} \cup
                  {[id |-> t.id, tag |-> t.tag] : t \in timers}
    IN  /\ \A a, b \in issued : a.id # b.id => a.tag # b.tag
        /\ \A t \in timers : t.tag = t.seq - 1

\* C15: from construction on and after every key event exactly one widget
\* is focused, the one at the focus index; every other widget is blurred.
C15_ExactlyOneFocused ==
    /\ focusedInput \in Fields
    /\ \A i \in Fields : inputs[i].Focused <=> i = focusedInput
    /\ Cardinality({i \in Fields : inputs[i].Focused}) = 1

\* the focus went down to the login field and came back up to the address
C15_Witness ==
    /\ lastMsg = "KeyUp"
    /\ focusedInput = inputAddress
    /\ inputs[inputAddress].Focused
    /\ ~inputs[inputTitle].Focused
    /\ ~inputs[inputDescription].Focused
    /\ nEdits > 0

\* the fields that carry SSH arguments
SSHArguments == {inputLogin, inputNetworkPort, inputIdentityFile}

\* enabled flag and placeholder prefix of the SSH argument fields agree with
\* the address text of the same inputs
FollowsAddress(ins) ==
    \A i \in SSHArguments :
        /\ ins[i].Enabled = ~isCustomConnectString(ins)
        /\ ins[i].Placeholder[1] =
              IF isCustomConnectString(ins) THEN "readonly: " ELSE "default: "

\* C16: after every config-loaded notification the login, network port and
\* identity file fields are enabled exactly when the address is structured
\* and disabled exactly when it is user-defined, with the placeholder prefix
\* "default: " resp. "readonly: "; fields disabled earlier are enabled again
\* by the first notification handled after the address became structured.
C16_ConfigLoadedRecomputes ==
    lastMsg = "HostSSHConfigLoaded" => FollowsAddress(inputs)

\* C17: in every state reached by a change of the address text (character
\* input, mirroring from the title, copy-value shortcut) the enabled flag and
\* the placeholder prefix of the login, network port and identity file
\* fields are those the new address text determines.
C17_RecomputedOnAddressChange ==
    [][inputs'[inputAddress].Value # inputs[inputAddress].Value =>
          FollowsAddress(inputs')]_vars

ErrorsLive(ins) == \A i \in Fields : HasValidator(i) => ins[i].Err = Validate(i, ins[i].Value)

\* C19 as claimed: after every Up or Down key, one clamped at the first or
\* last field included, every field with a validator has the error state
\* its validator gives for its current value.
C19_EveryNavigateRevalidates ==
    [][lastMsg' \in {"KeyUp", "KeyDown"} => ErrorsLive(inputs')]_vars

\* C19 as amended: an Up or Down key that moves the focus leaves every field
\* with a validator, focused or not, with the error state its validator
\* gives for its current value; one clamped at the first or last field
\* leaves every field's error state as it was.
C19_MovingNavigateRevalidates ==
    [][lastMsg' \in {"KeyUp", "KeyDown"} =>
          IF focusedInput' # focusedInput
          THEN /\ ErrorsLive(inputs')
               /\ \A i \in Fields : inputs'[i].Value = inputs[i].Value
          ELSE /\ focusedInput \in {inputTitle, inputIdentityFile}
               /\ \A i \in Fields : inputs'[i].Err = inputs[i].Err]_vars

\* Down moved the focus of a blank new form from the title to the address:
\* both fields, the one left and the one entered, show "value is required"
C19_Witness ==
    /\ lastMsg = "KeyDown"
    /\ focusedInput = inputAddress
    /\ isNewHost
    /\ nEdits = 0
    /\ inputs[inputTitle].Err = ErrRequired
    /\ inputs[inputAddress].Err = ErrRequired

\* the command holds a config-reload envelope
HasEnvelope(command) == \E k \in 1..Len(command) : command[k].type = "debouncedMessage"

\* C20: a key event returns a config-reload envelope exactly when the focus
\* is on the address, the key is handled as input of the focused field
\* (neither Save, Discard, Up, Down nor the enabled copy-value shortcut) and
\* the address after the key differs from the address before; the envelope
\* is then the only notification and carries the address after the key.
\* Mirroring from the title, the copy-value shortcut and inputs that leave
\* the address unchanged return no envelope.
C20_EnvelopeIffAddressTyped ==
    [][lastMsg' \in {"KeyRunes", "KeyBackspace", "KeyCopy", "KeyUp", "KeyDown",
                     "KeySave", "KeyDiscard"} =>
          IF HasEnvelope(cmd')
          THEN /\ focusedInput = inputAddress
               /\ lastMsg' \in {"KeyRunes", "KeyBackspace"}
               /\ inputs'[inputAddress].Value # inputs[inputAddress].Value
               /\ Len(cmd') = 1
               /\ cmd'[1].text = inputs'[inputAddress].Value
               /\ nReq' = nReq + 1
          ELSE /\ ~ /\ focusedInput = inputAddress
                    /\ lastMsg' \in {"KeyRunes", "KeyBackspace"}
                    /\ inputs'[inputAddress].Value # inputs[inputAddress].Value
               /\ nReq' = nReq
               /\ envelopes' = envelopes]_vars

\* "@" typed into the address "a" of a stored record: one envelope with the
\* new address
C20_Witness ==
    /\ lastMsg = "KeyRunes"
    /\ focusedInput = inputAddress
    /\ inputs[inputAddress].Value = <<"a", "@">>
    /\ cmd = <<DebouncedMessage(<<"a", "@">>, 0)>>
    /\ nReq = 1

\* C21: Discard returns exactly one notification, close-form, makes no call
\* of the storage's save and leaves the storage as it was, returns neither
\* select-record nor refresh-list, whatever the form holds (unsaved or
\* invalid field values included).
C21_DiscardOnlyCloses ==
    [][lastMsg' = "KeyDiscard" =>
          /\ cmd' = <<MsgClose>>
          /\ \A k \in 1..Len(cmd') :
                cmd'[k].type \notin {"HostListSelectItem", "MsgRefreshRepo"}
          /\ saveCalls' = 0
          /\ storage' = storage]_vars

\* a new form with a typed title and an address emptied again, which Save
\* would refuse, was discarded: nothing was stored
C21_Witness ==
    /\ lastMsg = "KeyDiscard"
    /\ isNewHost
    /\ inputs[inputTitle].Value = <<"a">>
    /\ StringEmpty(inputs[inputAddress].Value)
    /\ host = ZeroHost
    /\ storage.hosts = {}
    /\ cmd = <<MsgClose>>

\* the record New put into the form: the zero record for a new host, the
\* stored record otherwise
HostAsConstructed ==
    IF isNewHost THEN host = ZeroHost ELSE host \in StoredHosts /\ storage.hosts = {host}

\* C22: the form New returns holds the record loaded at construction, and every
\* message other than Save (Up, Down, the copy-value shortcut, character
\* input with mirroring, window size, debounced envelope and its timer,
\* config-loaded, Discard) leaves every attribute of the host record as it
\* was: until the first Save the record is the constructed one.
C22_OnlySaveWritesHost ==
    [][/\ lastMsg = "New" => HostAsConstructed
       /\ lastMsg' # "KeySave" => host' = host]_vars

\* the address of a stored record was edited, the reload request delivered
\* and answered by a config-loaded notification: the record still holds
\* the stored address
C22_Witness ==
    /\ lastMsg = "HostSSHConfigLoaded"
    /\ ~isNewHost
    /\ host \in storage.hosts
    /\ host.Address = <<"a", "@", "a">>
    /\ inputs[inputAddress].Value = <<"a", "@", "a", "@">>
    /\ Len(delivered) = 1
    /\ ~inputs[inputLogin].Enabled

====
